---- MODULE Spec2Model ----
(***************************************************************************)
(* A model of ModelEntry (src/core.py): the configuration object, its data *)
(* acquisition (get_data), its two reporting operations (plot_transects    *)
(* and plot_ice_extent) and the helpers they call (__process_datasets,     *)
(* __regrid_ORCA, __create_month_dt, __colourmap_limits, haversine,        *)
(* __export).                                                              *)
(*                                                                         *)
(* Units.  Angles are integers in minutes of arc (70.5 degrees = 4230, the *)
(* default resolution of 1/12 degree = 5).  Ice concentrations and         *)
(* thresholds are integers in hundredths                                   *)
(* (0.05 = 5).  Distances are integers in metres.  A floating point        *)
(* not-a-number is the value NaN, and every comparison with it is false,   *)
(* as in IEEE 754.  Python's None is the string "None".                    *)
(***************************************************************************)
EXTENDS Integers, Sequences, FiniteSets, TLC

VARIABLES
    \* the fields of one ModelEntry (core.py:33-42)
    dataset_id, variable, extent, output_path, file_format, ORCA,
    horizontal_resolution, month,
    \* the running operation: its name, its arguments, its position and locals
    op, pc, longitude, html, threshold, j, i, ds_var, ice_extents, month_dts,
    \* what the operation has done so far: its steps in order, the artifacts
    \* handed to __export, the exception that ended it ("none" when none)
    trace, exported, error,
    \* the number of assignments made to self.output_path since construction
    path_writes,
    \* whether the file that output_path names exists
    on_disk,
    \* the activation record of a helper that is run on its own
    frame

cfg == <<dataset_id, variable, extent, output_path, file_format, ORCA,
         horizontal_resolution, month>>
inv == <<op, pc, longitude, html, threshold, j, i, ds_var, ice_extents, month_dts,
         trace, exported, error>>
vars == <<dataset_id, variable, extent, output_path, file_format, ORCA,
          horizontal_resolution, month, op, pc, longitude, html, threshold, j, i,
          ds_var,
          ice_extents, month_dts, trace, exported, error, path_writes, on_disk,
          frame>>

-----------------------------------------------------------------------------
(* Bounds of the model *)

\* the longest variable list of a ModelEntry
MaxVars == 2
\* the longest month list of a ModelEntry
MaxMonths == 2
\* the most grid points along a transect handed to the ice-extent loop
MaxPts == 4
\* the years a month's bounds are computed for: YearLo .. YearLo + YearSpan
YearSpan == 3
\* the widest source grid handed to the regridder, in minutes of arc
MaxSpan == 6

-----------------------------------------------------------------------------
(* Values *)

None == "None"
NaN == -999

\* the default of ModelEntry.horizontal_resolution, 1/12 degree
DefaultResolution == 5

Abs(x) == IF x < 0 THEN 0 - x ELSE x
Min(a, b) == IF a <= b THEN a ELSE b

\* IEEE comparison: false as soon as one side is not-a-number
Gt(a, b) == a # NaN /\ b # NaN /\ a > b

\* the sequences over S of length lo..hi
SeqsOf(S, lo, hi) == UNION {[1..n -> S] : n \in lo..hi}

-----------------------------------------------------------------------------
(* __create_month_dt (core.py:332-346) *)

\* the year of the extent the repository's script configures
ExtentYear == 2023
Years == (ExtentYear - 1)..(ExtentYear - 1 + YearSpan)

\* the full month names of the C locale, as _strptime holds them (lower case)
MonthNames == <<"january", "february", "march", "april", "may", "june", "july",
                "august", "september", "october", "november", "december">>
CapitalNames == <<"January", "February", "March", "April", "May", "June", "July",
                  "August", "September", "October", "November", "December">>

\* str.lower() on the strings of the model: only the capitalised month names
\* contain an upper-case letter
Lower(s) ==
    IF \E n \in 1..12 : CapitalNames[n] = s
    THEN MonthNames[CHOOSE n \in 1..12 : CapitalNames[n] = s]
    ELSE s

\* a parser that takes every string it does not know for January
strptime_lenient(m, year) ==
    [raised |-> "none",
     dt |-> [calendar |-> "gregorian", year |-> year,
             month |-> IF \E n \in 1..12 : MonthNames[n] = Lower(m)
                       THEN CHOOSE n \in 1..12 : MonthNames[n] = Lower(m) ELSE 1,
             day |-> 1, hour |-> 0, minute |-> 0]]

\* datetime.strptime(f"{month} {year}", "%B %Y"): %B matches a full month name
\* whatever its case, %Y exactly four digits; anything else is a ValueError.
\* The fields the format does not name default to day 1, 00:00.
strptime(m, year) ==
    IF (\E n \in 1..12 : MonthNames[n] = Lower(m)) /\ year >= 1000 /\ year <= 9999
    THEN [raised |-> "none",
          dt |-> [calendar |-> "gregorian", year |-> year,
                  month |-> CHOOSE n \in 1..12 : MonthNames[n] = Lower(m),
                  day |-> 1, hour |-> 0, minute |-> 0]]
    ELSE [raised |-> "ValueError", dt |-> None]

IsLeap(y) == (y % 4 = 0) /\ ((y % 100 # 0) \/ (y % 400 = 0))
DaysInMonth(y, m) ==
    IF m = 2 THEN (IF IsLeap(y) THEN 29 ELSE 28)
    ELSE IF m \in {4, 6, 9, 11} THEN 30 ELSE 31

\* dt + relativedelta(months=+1) without the carry of the year: December is
\* followed by January of the same year
relativedelta_nocarry(dt) ==
    LET m == IF dt.month = 12 THEN 1 ELSE dt.month + 1
    IN  [raised |-> "none",
         dt |-> [dt EXCEPT !.month = m,
                           !.day = Min(dt.day, DaysInMonth(dt.year, m))]]

\* dt + relativedelta(months=+1): the month advances by one and carries into
\* the year, the day is capped at the length of the target month, and a year
\* past 9999 cannot be represented
relativedelta(dt) ==
    LET y == IF dt.month = 12 THEN dt.year + 1 ELSE dt.year
        m == IF dt.month = 12 THEN 1 ELSE dt.month + 1
    IN  IF y > 9999 THEN [raised |-> "ValueError", dt |-> None]
        ELSE [raised |-> "none",
              dt |-> [dt EXCEPT !.year = y, !.month = m,
                                !.day = Min(dt.day, DaysInMonth(y, m))]]

\* cftime.Datetime360Day(dt.year, dt.month, dt.day, 0, 0, 0, 0)
Datetime360Day(dt) ==
    [calendar |-> "360_day", year |-> dt.year, month |-> dt.month,
     day |-> dt.day, hour |-> 0, minute |-> 0]

create_month_dt(m, year, orca) ==
    LET p == strptime(m, year)
        n == IF p.raised = "none" THEN relativedelta(p.dt) ELSE p
    IN  IF n.raised # "none"
        THEN [raised |-> n.raised, month_dt |-> None, next_month_dt |-> None]
        ELSE IF orca
        THEN [raised |-> "none", month_dt |-> Datetime360Day(p.dt),
              next_month_dt |-> Datetime360Day(n.dt)]
        ELSE [raised |-> "none", month_dt |-> p.dt, next_month_dt |-> n.dt]

\* the position of an instant on the time line of its own calendar, in minutes
\* (datetime.toordinal for the Gregorian calendar, 30-day months for 360_day)
DaysBeforeYear(y) == (y - 1) * 365 + ((y - 1) \div 4) - ((y - 1) \div 100) + ((y - 1) \div 400)
RECURSIVE DaysBeforeMonth(_, _)
DaysBeforeMonth(y, m) ==
    IF m = 1 THEN 0 ELSE DaysBeforeMonth(y, m - 1) + DaysInMonth(y, m - 1)
Ordinal(dt) ==
    IF dt.calendar = "360_day"
    THEN dt.year * 360 + (dt.month - 1) * 30 + dt.day
    ELSE DaysBeforeYear(dt.year) + DaysBeforeMonth(dt.year, dt.month) + dt.day
Instant(dt) == (Ordinal(dt) * 24 + dt.hour) * 60 + dt.minute

\* the month strings handed to __create_month_dt on its own
MonthInputs == {CapitalNames[n] : n \in 1..12} \cup {"january", "Jan", "Smarch", ""}

Deg(d) == d * 60

\* the extent of the repository's script (main.py:51-56)
TheExtent(y) ==
    [north |-> Deg(80), south |-> Deg(69), east |-> Deg(31), west |-> Deg(29),
     year |-> y]

Idle ==
    /\ op = "none" /\ pc = "idle" /\ longitude = None /\ html = FALSE
    /\ threshold = None
    /\ j = 0 /\ i = 0 /\ ds_var = None
    /\ ice_extents = <<>> /\ month_dts = <<>>
    /\ trace = <<>> /\ exported = <<>> /\ error = "none"
    /\ path_writes = 0
    /\ on_disk = (output_path # None)

InitMonth ==
    /\ dataset_id = "NEMO_MEDUSA_Phy"
    /\ variable = <<[name |-> "thetao", colourmap |-> "thermal"]>>
    /\ extent \in {TheExtent(y) : y \in Years}
    /\ output_path = "NEMO-MEDUSA/NEMO_MEDUSA_2023_T.nc"
    /\ file_format = "netcdf"
    /\ ORCA \in BOOLEAN
    /\ horizontal_resolution = DefaultResolution
    /\ \E m \in MonthInputs :
          /\ month = <<m>>
          /\ frame = [fn |-> "create_month_dt", pc |-> "call", month |-> m]
    /\ Idle

\* self.__create_month_dt(month=...)
CreateMonthDt ==
    /\ frame.fn = "create_month_dt" /\ frame.pc = "call"
    /\ LET r == create_month_dt(frame.month, extent.year, ORCA)
       IN  frame' = [fn |-> "create_month_dt",
                     pc |-> IF r.raised = "none" THEN "return" ELSE "raise",
                     month |-> frame.month, result |-> r]
    /\ UNCHANGED <<cfg, inv, path_writes, on_disk>>

NextMonth == CreateMonthDt
SpecMonth == InitMonth /\ [][NextMonth]_vars

-----------------------------------------------------------------------------
(* haversine (core.py:227-243) and the ice-extent loop (core.py:179-193) *)

\* R * pi / 10800 with R = 6371.0 km: the metres of one minute of arc of a
\* great circle
MetresPerArcMinute == 1853

\* the distance with its sign kept: negative when lat2 is south of lat1
haversine_signed(lon1, lat1, lon2, lat2) ==
    CASE lon1 = lon2 -> MetresPerArcMinute * (lat2 - lat1)

\* With lon1 = lon2 the formula has dlon = 0, so a = sin(dlat/2)^2 and
\* c = 2*arcsin(|sin(dlat/2)|) = |dlat|: the result is R*|lat2 - lat1| in
\* radians.  Every call of the repository passes the same longitude twice
\* (core.py:190); the operator is defined for those calls only.
haversine(lon1, lat1, lon2, lat2) ==
    CASE lon1 = lon2 -> MetresPerArcMinute * Abs(lat2 - lat1)

\* the loop body with the threshold tested at the upper point of the pair
ice_body_upper(ice, lat, thr, lon, k, extent_km) ==
    IF Gt(ice[1][k + 2], thr)
    THEN extent_km + haversine(lon, lat[k + 1], lon, lat[k + 2])
    ELSE extent_km

\* the loop body reading the last time step of the month instead of the first
ice_body_last_step(ice, lat, thr, lon, k, extent_km) ==
    IF Gt(ice[Len(ice)][k + 1], thr)
    THEN extent_km + haversine(lon, lat[k + 1], lon, lat[k + 2])
    ELSE extent_km

\* core.py:188-192, one pass of the loop body at index k (0-based, as in the
\* code; sequences of the model are 1-based, so ice[0][k] is ice[1][k + 1])
ice_body(ice, lat, thr, lon, k, extent_km) ==
    IF Gt(ice[1][k + 1], thr)
    THEN extent_km + haversine(lon, lat[k + 1], lon, lat[k + 2])
    ELSE extent_km

\* core.py:186, for k in range(len(ice[0]) - 1), from index k on
RECURSIVE ice_loop(_, _, _, _, _, _)
ice_loop(ice, lat, thr, lon, k, extent_km) ==
    IF k >= Len(ice[1]) - 1 THEN extent_km
    ELSE ice_loop(ice, lat, thr, lon, k + 1,
                  ice_body(ice, lat, thr, lon, k, extent_km))

\* core.py:184-193 for one month: ice is indexed [time step][latitude point];
\* ice[0] of an array with no time step is an IndexError
monthly_extent(ice, lat, thr, lon) ==
    IF Len(ice) = 0 THEN [raised |-> "IndexError", extent_km |-> None]
    ELSE [raised |-> "none", extent_km |-> ice_loop(ice, lat, thr, lon, 0, 0)]

\* concentrations along a transect: masked cells, open water, traces of ice, ice
ConcValues == {NaN, 0, 1, 20, 30}
Thresholds == {5, 25}
\* latitude axes of n points: ascending and even, descending and even, uneven
LatAxes(n) ==
    { [p \in 1..n |-> Deg(70) + 30 * (p - 1)],
      [p \in 1..n |-> Deg(80) - 30 * (p - 1)],
      [p \in 1..n |-> Deg(70) + 15 * p * (p - 1)] }
\* the time steps a month's window selects: none, one, or two (the second one
\* fully ice covered)
IceArrays(n) ==
    {<<>>} \cup {<<row>> : row \in [1..n -> ConcValues]}
           \cup {<<row, [p \in 1..n |-> 30]>> : row \in [1..n -> ConcValues]}

InitIce ==
    /\ dataset_id = "cmems_mod_arc_phy_anfc_6km_detided_P1M-m"
    /\ variable = <<[name |-> "siconc", colourmap |-> None]>>
    /\ extent = TheExtent(ExtentYear)
    /\ output_path = None
    /\ file_format = "zarr"
    /\ ORCA = FALSE
    /\ horizontal_resolution = DefaultResolution
    /\ month = <<"January">>
    /\ \E n \in 0..MaxPts : \E a \in IceArrays(n), l \in LatAxes(n), t \in Thresholds :
          frame = [fn |-> "ice_extent", pc |-> "call", ice |-> a, lat |-> l,
                   threshold |-> t, longitude |-> Deg(30), k |-> 0,
                   extent_km |-> None]
    /\ Idle

\* core.py:184-186: extent_km = 0.0, and len(ice[0]) is evaluated
IceEnter ==
    /\ frame.fn = "ice_extent" /\ frame.pc = "call"
    /\ frame' = IF Len(frame.ice) = 0
                THEN [frame EXCEPT !.pc = "raise"]
                ELSE [frame EXCEPT !.pc = "loop", !.extent_km = 0]
    /\ UNCHANGED <<cfg, inv, path_writes, on_disk>>

\* core.py:186-192: one pass of the loop
IceIter ==
    /\ frame.fn = "ice_extent" /\ frame.pc = "loop"
    /\ frame.k < Len(frame.ice[1]) - 1
    /\ frame' = [frame EXCEPT
                   !.extent_km = ice_body(frame.ice, frame.lat, frame.threshold,
                                          frame.longitude, frame.k, frame.extent_km),
                   !.k = frame.k + 1]
    /\ UNCHANGED <<cfg, inv, path_writes, on_disk>>

\* core.py:193: the loop is over and the month's extent is appended
IceExit ==
    /\ frame.fn = "ice_extent" /\ frame.pc = "loop"
    /\ frame.k >= Len(frame.ice[1]) - 1
    /\ frame' = [frame EXCEPT !.pc = "done"]
    /\ UNCHANGED <<cfg, inv, path_writes, on_disk>>

NextIce == IceEnter \/ IceIter \/ IceExit
SpecIce == InitIce /\ [][NextIce]_vars

-----------------------------------------------------------------------------
(* __regrid_ORCA (core.py:272-315) *)

(***************************************************************************)
(* A variable on the curvilinear grid is a record: kind (the xarray class  *)
(* of the object), layout (the names its axes carry), the range of its 2-D *)
(* latitude and longitude coordinates, its time axis, and cells[t][q], the *)
(* value at time step t of the source cell at latitude lat_min, the middle *)
(* of the range, and lat_max (q = 1, 2, 3); the values do not vary with    *)
(* longitude.  A variable on a regular grid has 1-D latitude and longitude *)
(* axes and cells[t][p][c], the value at time step t, latitude point p and *)
(* longitude point c.  Interpolated values are exact fractions: a cell     *)
(* holds the numerator and the record's unit_den the common positive       *)
(* denominator.                                                            *)
(***************************************************************************)

Max(a, b) == IF a >= b THEN a ELSE b

\* core.py:280-286: the two renames; the first fails with ValueError when
\* there is no deptht axis and the second is tried, which fails in turn when
\* the spatial coordinates are not named nav_lat / nav_lon
rename_ORCA(dv) ==
    CASE dv.layout = "ORCA3D" ->
            [raised |-> "none", ds_var |-> [dv EXCEPT !.layout = "depth"]]
      [] dv.layout = "ORCA2D" ->
            [raised |-> "none", ds_var |-> [dv EXCEPT !.layout = "surface"]]
      [] OTHER -> [raised |-> "ValueError", ds_var |-> dv]

\* x.where(x != 0) on the cells of one time step: a cell equal to zero becomes
\* not-a-number (NaN != 0 is true, so a missing cell stays missing)
where_nonzero_row(row) == [p \in DOMAIN row |-> IF row[p] = 0 THEN NaN ELSE row[p]]
where_nonzero(dv) ==
    [dv EXCEPT !.cells =
        [t \in DOMAIN dv.cells |->
            IF dv.grid = "curvilinear" THEN where_nonzero_row(dv.cells[t])
            ELSE [p \in DOMAIN dv.cells[t] |-> where_nonzero_row(dv.cells[t][p])]]]

\* the count of points with both ends of the range counted
target_number_inclusive(lo, hi, resolution) == ((hi - lo) \div resolution) + 1

\* core.py:290-291: int((max - min) / resolution); max >= min, so the
\* truncation of int() is the floor
target_number(lo, hi, resolution) == (hi - lo) \div resolution

\* np.linspace(lo, hi, num): num points, the first lo, the step
\* (hi - lo)/(num - 1); one point is lo alone and none is the empty axis.
\* The points are exact: point p is num[p]/den.
linspace(lo, hi, num) ==
    [den |-> Max(num - 1, 1),
     num |-> [p \in 1..num |-> lo * Max(num - 1, 1) + (p - 1) * (hi - lo)]]

\* the points of an axis in minutes of arc, rounded down
AxisValues(axis) == [p \in DOMAIN axis.num |-> axis.num[p] \div axis.den]

\* core.py:301-303 along latitude: the linear interpolation of the source cells
\* at lat_min, the middle and lat_max onto the target points; a target point
\* takes the two source cells that bracket it, and is missing as soon as one
\* of them is.  The result is in units of 1/((hi - lo) * den).
interpolate_row(row, lo, hi, target_lat) ==
    [p \in DOMAIN target_lat.num |->
        LET den == target_lat.den
            T2 == 2 * target_lat.num[p]
            X(q) == (2 * lo + (q - 1) * (hi - lo)) * den
            q == IF T2 <= X(2) THEN 1 ELSE 2
        IN  IF row[q] = NaN \/ row[q + 1] = NaN THEN NaN
            ELSE row[q] * (X(q + 1) - T2) + row[q + 1] * (T2 - X(q))]

\* core.py:280-287
regrid_rename(dv) ==
    LET r == rename_ORCA(dv)
    IN  IF r.raised # "none" THEN r
        ELSE [raised |-> "none", ds_var |-> where_nonzero(r.ds_var)]

\* core.py:288-299
regrid_target(dv, resolution) ==
    LET lat_number == target_number(dv.lat_min, dv.lat_max, resolution)
        lon_number == target_number(dv.lon_min, dv.lon_max, resolution)
    IN  [lat_number |-> lat_number, lon_number |-> lon_number,
         target_lat |-> linspace(dv.lat_min, dv.lat_max, lat_number),
         target_lon |-> linspace(dv.lon_min, dv.lon_max, lon_number)]

\* core.py:301-308: the regridder returns an object of the class it was given;
\* the source does not vary with longitude, so every target longitude gets
\* the value interpolated along latitude
regrid_interpolate(dv, target_grid) ==
    [kind |-> dv.kind, layout |-> dv.layout, grid |-> "regular",
     latitude |-> target_grid.target_lat, longitude |-> target_grid.target_lon,
     time |-> dv.time,
     unit_den |-> Max((dv.lat_max - dv.lat_min) * target_grid.target_lat.den, 1),
     cells |-> [t \in DOMAIN dv.cells |->
                  LET row == interpolate_row(dv.cells[t], dv.lat_min, dv.lat_max,
                                             target_grid.target_lat)
                  IN  [p \in DOMAIN row |->
                         [c \in DOMAIN target_grid.target_lon.num |-> row[p]]]]]

\* core.py:310-315: DataArray.to_dataset gives ds_var the regridded variable;
\* a Dataset has no to_dataset, the AttributeError is passed over and ds_var
\* is still the variable that went into the regridder
regrid_return(dv, ds_regridded) ==
    IF ds_regridded.kind = "DataArray"
    THEN where_nonzero([ds_regridded EXCEPT !.kind = "Dataset"])
    ELSE where_nonzero(dv)

regrid_ORCA(dv, resolution) ==
    LET r == regrid_rename(dv)
    IN  IF r.raised # "none" THEN [raised |-> r.raised, ds_var |-> None]
        ELSE [raised |-> "none",
              ds_var |-> regrid_return(r.ds_var,
                            regrid_interpolate(r.ds_var,
                                               regrid_target(r.ds_var, resolution)))]

\* the target resolutions, the source values and the source grids the
\* regridder is run on
Resolutions == {1, 2, DefaultResolution}
SourceValues == {NaN, -1, 0, 2}
SourceGrids ==
    {[kind |-> kd, layout |-> ly, grid |-> "curvilinear",
      lat_min |-> Deg(70), lat_max |-> Deg(70) + a,
      lon_min |-> Deg(29), lon_max |-> Deg(29) + b,
      time |-> <<1>>, unit_den |-> 1, cells |-> <<row>>] :
        kd \in {"DataArray", "Dataset"}, ly \in {"ORCA3D", "ORCA2D", "regular"},
        a \in 0..MaxSpan, b \in {0, MaxSpan}, row \in [1..3 -> SourceValues]}

InitRegrid ==
    /\ dataset_id = "NEMO_MEDUSA_ICE"
    /\ variable = <<[name |-> "siconc", colourmap |-> None]>>
    /\ extent = TheExtent(ExtentYear)
    /\ output_path = "NEMO-MEDUSA/NEMO_MEDUSA_2023_ICE.nc"
    /\ file_format = "netcdf"
    /\ ORCA = TRUE
    /\ horizontal_resolution \in Resolutions
    /\ month = <<"January">>
    /\ \E g \in SourceGrids :
          frame = [fn |-> "regrid_ORCA", pc |-> "call", source |-> g, ds_var |-> g,
                   target_grid |-> None, ds_regridded |-> None]
    /\ Idle

\* core.py:280-287: rename, then mask the zeros
RegridRename ==
    /\ frame.fn = "regrid_ORCA" /\ frame.pc = "call"
    /\ LET r == regrid_rename(frame.ds_var)
       IN  frame' = IF r.raised # "none"
                    THEN [frame EXCEPT !.pc = "raise"]
                    ELSE [frame EXCEPT !.pc = "masked", !.ds_var = r.ds_var]
    /\ UNCHANGED <<cfg, inv, path_writes, on_disk>>

\* core.py:288-299: the target grid
RegridTarget ==
    /\ frame.fn = "regrid_ORCA" /\ frame.pc = "masked"
    /\ frame' = [frame EXCEPT !.pc = "target",
                   !.target_grid = regrid_target(frame.ds_var, horizontal_resolution)]
    /\ UNCHANGED <<cfg, inv, path_writes, on_disk>>

\* core.py:301-308: interpolation and the float64 cast
RegridInterpolate ==
    /\ frame.fn = "regrid_ORCA" /\ frame.pc = "target"
    /\ frame' = [frame EXCEPT !.pc = "regridded",
                   !.ds_regridded = regrid_interpolate(frame.ds_var, frame.target_grid)]
    /\ UNCHANGED <<cfg, inv, path_writes, on_disk>>

\* core.py:310-315: to_dataset, the second mask, return
RegridReturn ==
    /\ frame.fn = "regrid_ORCA" /\ frame.pc = "regridded"
    /\ frame' = [frame EXCEPT !.pc = "return",
                   !.ds_var = regrid_return(frame.ds_var, frame.ds_regridded)]
    /\ UNCHANGED <<cfg, inv, path_writes, on_disk>>

NextRegrid == RegridRename \/ RegridTarget \/ RegridInterpolate \/ RegridReturn
SpecRegrid == InitRegrid /\ [][NextRegrid]_vars

-----------------------------------------------------------------------------
(* The datasets on disk (the files main.py:57-141 configures) *)

\* the variables that have no depth axis
SurfaceNames == {"siconc"}

\* a regular grid: CMEMS Arctic analysis, Gregorian time axis
RawTimes ==
    <<[calendar |-> "gregorian", year |-> ExtentYear, month |-> 1, day |-> 1,
       hour |-> 0, minute |-> 0],
      [calendar |-> "gregorian", year |-> ExtentYear, month |-> 1, day |-> 16,
       hour |-> 12, minute |-> 0]>>
\* the cells of the regular grid, RawColumns[c][t][p]: a column for each
\* longitude of the axis
RawColumns ==
    << <<<<30, 0, 20, 1, 30>>, <<30, 30, 30, NaN, 1>>>>,
       <<<<20, 20, 0, 0, NaN>>, <<1, 1, 1, 1, 1>>>>,
       <<<<0, 30, 30, 20, 1>>, <<NaN, 20, 20, 20, 20>>>> >>
RawVariable(name) ==
    [kind |-> "DataArray",
     layout |-> IF name \in SurfaceNames THEN "surface" ELSE "depth",
     grid |-> "regular",
     latitude |-> [den |-> 1, num |-> <<Deg(69), Deg(70), Deg(70) + 30, Deg(71), Deg(71) + 30>>],
     longitude |-> [den |-> 1, num |-> <<Deg(29) + 48, Deg(30) + 6, Deg(30) + 24>>],
     time |-> RawTimes, unit_den |-> 1,
     cells |-> [t \in 1..2 |-> [p \in 1..5 |-> [c \in 1..3 |-> RawColumns[c][t][p]]]]]

\* a curvilinear grid: NEMO-MEDUSA, 360-day time axis
ORCATimes ==
    <<[calendar |-> "360_day", year |-> ExtentYear, month |-> 1, day |-> 16,
       hour |-> 0, minute |-> 0],
      [calendar |-> "360_day", year |-> ExtentYear, month |-> 2, day |-> 1,
       hour |-> 0, minute |-> 0],
      [calendar |-> "360_day", year |-> ExtentYear, month |-> 2, day |-> 16,
       hour |-> 0, minute |-> 0]>>
ORCAVariable(name) ==
    [kind |-> "DataArray",
     layout |-> IF name \in SurfaceNames THEN "ORCA2D" ELSE "ORCA3D",
     grid |-> "curvilinear",
     lat_min |-> Deg(70), lat_max |-> Deg(70) + 30,
     lon_min |-> Deg(29) + 50, lon_max |-> Deg(30) + 5,
     time |-> ORCATimes, unit_den |-> 1,
     cells |-> <<<<20, 20, 20>>, <<0, 0, 0>>, <<NaN, 30, 30>>>>]

\* ds[name] of the opened dataset (core.py:94, 160)
DatasetVariable(orca, name) == IF orca THEN ORCAVariable(name) ELSE RawVariable(name)

\* the depth levels of a variable that has a depth axis, in metres
DepthAxis == <<0, 100, 500>>

-----------------------------------------------------------------------------
(* __process_datasets (core.py:245-270) *)

max_valid_depth == 400
latitude_start_slice == Deg(69) + 30
latitude_end_slice == Deg(80)

\* core.py:251-256 with every format accepted
process_datasets_anyformat(fmt, present) ==
    IF ~present THEN [raised |-> "FileNotFoundError"] ELSE [raised |-> "none"]

\* core.py:251-256: the format is tested before the file is touched
process_datasets(fmt, present) ==
    IF fmt \notin {"zarr", "netcdf"} THEN [raised |-> "unsupported file format"]
    ELSE IF ~present THEN [raised |-> "FileNotFoundError"]
    ELSE [raised |-> "none"]

-----------------------------------------------------------------------------
(* __colourmap_limits (core.py:317-330) *)

RECURSIVE Flatten(_)
Flatten(rows) == IF rows = <<>> THEN <<>> ELSE Head(rows) \o Flatten(Tail(rows))

\* the value at rank r (from 1) of the values of v in ascending order
ranked(v, r) ==
    CHOOSE x \in {v[q] : q \in 1..Len(v)} :
       /\ Cardinality({q \in 1..Len(v) : v[q] < x}) < r
       /\ r <= Cardinality({q \in 1..Len(v) : v[q] <= x})

\* np.nanpercentile(values, q), linear interpolation between the two closest
\* ranks of the values that are not NaN; the result is in hundredths of the
\* unit of the values, NaN when every value is missing
nanpercentile(values, q) ==
    LET v == SelectSeq(values, LAMBDA x : x # NaN)
        pos == (Len(v) - 1) * q
        lo == (pos \div 100) + 1
        hi == Min(lo + 1, Len(v))
    IN  IF v = <<>> THEN NaN
        ELSE ranked(v, lo) * (100 - (pos % 100)) + ranked(v, hi) * (pos % 100)

\* the values of the first time step only
values_of_first_step(dv) == IF Len(dv.cells) = 0 THEN <<>> ELSE Flatten(dv.cells[1])

\* .values of a variable on a regular grid, flattened
values_of(dv) == Flatten(Flatten(dv.cells))

\* the limits from the values of the whole variable, whatever its class (the
\* KeyError of ds_var[var_name] on a DataArray is caught and ds_var.values is
\* used)
colourmap_limits(dv) ==
    [max_valid_vals |-> nanpercentile(values_of(dv), 95),
     min_valid_vals |-> nanpercentile(values_of(dv), 5)]

-----------------------------------------------------------------------------
(* Selection along the axes (core.py:103-109, 172-177) *)

AxisLen(axis) == Len(axis.num)

\* the nearest coordinate with the smaller of two equally close ones taken
nearest_tie_smaller(axis, x) ==
    CHOOSE p \in 1..AxisLen(axis) :
       \A q \in 1..AxisLen(axis) :
          \/ Abs(axis.num[p] - x * axis.den) < Abs(axis.num[q] - x * axis.den)
          \/ /\ Abs(axis.num[p] - x * axis.den) = Abs(axis.num[q] - x * axis.den)
             /\ axis.num[p] <= axis.num[q]

\* ds_var.longitude.sel(longitude=x, method='nearest').item() on a monotonic
\* axis of distinct coordinates: the position of the closest coordinate; of
\* two equally close ones pandas takes the larger
nearest(axis, x) ==
    CHOOSE p \in 1..AxisLen(axis) :
       \A q \in 1..AxisLen(axis) :
          \/ Abs(axis.num[p] - x * axis.den) < Abs(axis.num[q] - x * axis.den)
          \/ /\ Abs(axis.num[p] - x * axis.den) = Abs(axis.num[q] - x * axis.den)
             /\ axis.num[p] >= axis.num[q]

\* latitude=slice(a, b): label selection, both ends included
lat_positions(axis, a, b) ==
    SelectSeq([p \in 1..AxisLen(axis) |-> p],
              LAMBDA p : a * axis.den <= axis.num[p] /\ axis.num[p] <= b * axis.den)

\* time=slice(start, end): label selection, both ends included.  The operator
\* is defined for a time axis of the calendar of start and end, which is what
\* the ORCA flag of an entry promises of its dataset.
time_positions(times, start, end) ==
    CASE \A t \in 1..Len(times) : times[t].calendar = start.calendar ->
       SelectSeq([t \in 1..Len(times) |-> t],
                 LAMBDA t : /\ Instant(start) <= Instant(times[t])
                            /\ Instant(times[t]) <= Instant(end))

\* every level of the depth axis, whatever the ceiling
depth_levels_all == DepthAxis

\* depth=slice(0, max_valid_depth)
depth_levels == SelectSeq(DepthAxis, LAMBDA d : 0 <= d /\ d <= max_valid_depth)

\* .values of the cells: the numerators over the unit of the record
cell_value(dv, x) == IF x = NaN THEN NaN ELSE CASE x % dv.unit_den = 0 -> x \div dv.unit_den

\* longitude=lon_slice: the positions of the axis that carry exactly that
\* label
label_positions(axis, lon) ==
    SelectSeq([c \in 1..AxisLen(axis) |-> c],
              LAMBDA c : axis.num[c] * lon.den = lon.num * axis.den)

\* the slice with the first column of the grid taken whatever the label
select_first_column(dv, lon, start, end, with_depth) ==
    IF with_depth /\ dv.layout # "depth" THEN [raised |-> "KeyError"]
    ELSE LET lats == lat_positions(dv.latitude, latitude_start_slice, latitude_end_slice)
             ts == time_positions(dv.time, start, end)
         IN  [raised |-> "none",
              longitude |-> lon,
              layout |-> dv.layout,
              depth |-> IF dv.layout # "depth" THEN <<>>
                        ELSE IF with_depth THEN depth_levels ELSE DepthAxis,
              latitude |-> [p \in 1..Len(lats) |-> dv.latitude.num[lats[p]] \div dv.latitude.den],
              time |-> [t \in 1..Len(ts) |-> dv.time[ts[t]]],
              values |-> [t \in 1..Len(ts) |->
                            [p \in 1..Len(lats) |-> cell_value(dv, dv.cells[ts[t]][lats[p]][1])]]]

\* the slice of core.py:105-109 / 174-177 at the positions selected; with_depth
\* tells whether a depth selection is part of the call, which xarray refuses
\* on a variable without that dimension (a KeyError in its current versions);
\* a longitude label the axis does not carry fails too
select(dv, lon, start, end, with_depth) ==
    IF with_depth /\ dv.layout # "depth" THEN [raised |-> "KeyError"]
    ELSE IF label_positions(dv.longitude, lon) = <<>> THEN [raised |-> "KeyError"]
    ELSE LET c == label_positions(dv.longitude, lon)[1]
             lats == lat_positions(dv.latitude, latitude_start_slice, latitude_end_slice)
             ts == time_positions(dv.time, start, end)
         IN  [raised |-> "none",
              longitude |-> lon,
              layout |-> dv.layout,
              depth |-> IF dv.layout # "depth" THEN <<>>
                        ELSE IF with_depth THEN depth_levels ELSE DepthAxis,
              latitude |-> [p \in 1..Len(lats) |-> dv.latitude.num[lats[p]] \div dv.latitude.den],
              time |-> [t \in 1..Len(ts) |-> dv.time[ts[t]]],
              values |-> [t \in 1..Len(ts) |->
                            [p \in 1..Len(lats) |-> cell_value(dv, dv.cells[ts[t]][lats[p]][c])]]]

\* The selection steps of one pass of a month loop (core.py:100-109,
\* 169-177), run on grids of their own.

Stamp(cal, mo, d, h) ==
    [calendar |-> cal, year |-> ExtentYear, month |-> mo, day |-> d,
     hour |-> h, minute |-> 0]

\* longitude axes: the three points 29.8, 30.1, 30.4; one point; two points
\* around 30; four points from linspace; a descending axis
SelectLonAxes ==
    {[den |-> 1, num |-> <<Deg(29) + 48, Deg(30) + 6, Deg(30) + 24>>],
     [den |-> 1, num |-> <<Deg(30)>>],
     [den |-> 1, num |-> <<Deg(29) + 54, Deg(30) + 6>>],
     linspace(Deg(29) + 45, Deg(30) + 15, MaxPts),
     [den |-> 1, num |-> <<Deg(30) + 24, Deg(30) + 6, Deg(29) + 54>>]}
\* the longitudes asked for, all inside the extent
SelectLongitudes ==
    {Deg(29), Deg(29) + 48, Deg(29) + 57, Deg(30), Deg(30) + 6, Deg(30) + 15, Deg(31)}
\* time axes of a calendar: monthly stamps on the first instant of the month,
\* stamps inside the months, and a single stamp
SelectTimeAxes(cal) ==
    {<<Stamp(cal, 1, 1, 0), Stamp(cal, 2, 1, 0), Stamp(cal, 3, 1, 0)>>,
     <<Stamp(cal, 1, 16, 12), Stamp(cal, 1, 30, 0), Stamp(cal, 2, 15, 0)>>,
     <<Stamp(cal, 2, 1, 0)>>}
SelectMonths == {"January", "February", "December"}
\* a regular grid whose cell at time step t, latitude point p and longitude
\* point c holds 100 t + 10 p + c
SelectGrid(ly, lon_axis, times) ==
    [kind |-> "DataArray", layout |-> ly, grid |-> "regular",
     latitude |-> [den |-> 1, num |-> <<Deg(69), Deg(70), Deg(71)>>],
     longitude |-> lon_axis, time |-> times, unit_den |-> 1,
     cells |-> [t \in 1..Len(times) |-> [p \in 1..3 |->
                  [c \in 1..AxisLen(lon_axis) |-> 100 * t + 10 * p + c]]]]

InitSelect ==
    /\ dataset_id = "cmems_mod_arc_phy_anfc_6km_detided_P1M-m"
    /\ variable = <<[name |-> "siconc", colourmap |-> None]>>
    /\ extent = TheExtent(ExtentYear)
    /\ output_path = None
    /\ file_format = "zarr"
    /\ ORCA \in BOOLEAN
    /\ horizontal_resolution = DefaultResolution
    /\ \E m \in SelectMonths, ly \in {"depth", "surface"}, a \in SelectLonAxes,
          x \in SelectLongitudes, with_depth \in BOOLEAN :
          \E ts \in SelectTimeAxes(IF ORCA THEN "360_day" ELSE "gregorian") :
             /\ month = <<m>>
             /\ frame = [fn |-> "select", pc |-> "call", month |-> m,
                         ds_var |-> SelectGrid(ly, a, ts), longitude |-> x,
                         with_depth |-> with_depth, month_dt |-> None,
                         next_month_dt |-> None, lon_slice |-> None,
                         slice_ds |-> None]
    /\ Idle

\* core.py:100, 169
SelectMonthDt ==
    /\ frame.fn = "select" /\ frame.pc = "call"
    /\ LET dts == create_month_dt(frame.month, extent.year, ORCA)
       IN  frame' = IF dts.raised # "none" THEN [frame EXCEPT !.pc = "raise"]
                    ELSE [frame EXCEPT !.pc = "dated", !.month_dt = dts.month_dt,
                                       !.next_month_dt = dts.next_month_dt]
    /\ UNCHANGED <<cfg, inv, path_writes, on_disk>>

\* core.py:103, 172
SelectNearest ==
    /\ frame.fn = "select" /\ frame.pc = "dated"
    /\ LET c == nearest(frame.ds_var.longitude, frame.longitude)
       IN  frame' = [frame EXCEPT !.pc = "nearest",
                       !.lon_slice = [num |-> frame.ds_var.longitude.num[c],
                                      den |-> frame.ds_var.longitude.den]]
    /\ UNCHANGED <<cfg, inv, path_writes, on_disk>>

\* core.py:105-109, 174-177
SelectSlice ==
    /\ frame.fn = "select" /\ frame.pc = "nearest"
    /\ LET r == select(frame.ds_var, frame.lon_slice, frame.month_dt,
                       frame.next_month_dt, frame.with_depth)
       IN  frame' = [frame EXCEPT !.pc = IF r.raised # "none" THEN "raise" ELSE "return",
                                  !.slice_ds = r]
    /\ UNCHANGED <<cfg, inv, path_writes, on_disk>>

NextSelect == SelectMonthDt \/ SelectNearest \/ SelectSlice
SpecSelect == InitSelect /\ [][NextSelect]_vars

-----------------------------------------------------------------------------
(* The colourmap of a variable (core.py:110-120) *)

\* core.py:111-120 with thermal as the fallback of every unlisted name
colourmap_of_lenient(c) ==
    CASE c = "haline" -> [raised |-> "none", cmap |-> "cmo.haline"]
      [] c = "algae" -> [raised |-> "none", cmap |-> "cmo.algae"]
      [] OTHER -> [raised |-> "none", cmap |-> "cmo.thermal"]

colourmap_of(c) ==
    CASE c = None -> [raised |-> "none", cmap |-> "cmo.thermal"]
      [] c = "haline" -> [raised |-> "none", cmap |-> "cmo.haline"]
      [] c = "algae" -> [raised |-> "none", cmap |-> "cmo.algae"]
      [] c = "thermal" -> [raised |-> "none", cmap |-> "cmo.thermal"]
      [] OTHER -> [raised |-> "Unknown colourmap", cmap |-> None]

-----------------------------------------------------------------------------
(* ModelEntry: construction, get_data, plot_transects, plot_ice_extent *)

\* the variable entries a ModelEntry is built from: two of main.py, with and
\* without a depth axis, and two with a colourmap name the code does not list
VarEntries ==
    {[name |-> "thetao", colourmap |-> "thermal"],
     [name |-> "siconc", colourmap |-> None],
     [name |-> "chl", colourmap |-> "viridis"],
     [name |-> "siconc", colourmap |-> "viridis"]}
\* the month strings a ModelEntry is built from
MonthChoices == {"January", "february", "Smarch"}
\* the arguments of the reporting operations: west of the extent, on its
\* western edge, on its eastern edge, east of it
CallArgs ==
    {[longitude |-> Deg(28), html |-> FALSE, threshold |-> 5],
     [longitude |-> Deg(29), html |-> FALSE, threshold |-> 5],
     [longitude |-> Deg(31), html |-> TRUE, threshold |-> 25],
     [longitude |-> Deg(31) + 30, html |-> TRUE, threshold |-> 5]}

\* core.py:52-61: the path get_data derives
DerivedPath == "copernicus_data/output_file"

\* the formats of the entries of main.py: an entry given the path of a file
\* keeps the default, netcdf; an entry whose data is downloaded asks for zarr
EntryFormat(path) == IF path = None THEN "zarr" ELSE "netcdf"

Init ==
    /\ dataset_id = "cmems_mod_arc_phy_anfc_6km_detided_P1M-m"
    /\ variable \in SeqsOf(VarEntries, 0, MaxVars)
    /\ extent = TheExtent(ExtentYear)
    /\ output_path \in {None, "NEMO-MEDUSA/NEMO_MEDUSA_2023_T.nc"}
    /\ file_format \in {EntryFormat(output_path), "csv"}
    /\ ORCA \in BOOLEAN
    /\ horizontal_resolution = DefaultResolution
    /\ month \in SeqsOf(MonthChoices, 0, MaxMonths)
    /\ frame = [fn |-> "none"]
    /\ Idle

Event(e, jj, ii) == [e |-> e, j |-> jj, i |-> ii]

\* get_data (core.py:44-78): the path is assigned before the download, which
\* may fail; with a path already there nothing happens
\* the test of core.py:51 replaced by one that always holds
path_is_absent_always(path) == TRUE

\* core.py:51: if self.output_path is None
path_is_absent(path) == path = None

GetData ==
    /\ pc = "idle"
    /\ op' = "get_data"
    /\ \E ok \in BOOLEAN :
          IF path_is_absent(output_path)
          THEN /\ output_path' = DerivedPath
               /\ path_writes' = path_writes + 1
               /\ on_disk' = ok
               /\ trace' = <<Event("subset", -1, -1)>>
               /\ pc' = IF ok THEN "returned" ELSE "failed"
               /\ error' = IF ok THEN "none" ELSE "DownloadError"
          ELSE /\ ok
               /\ UNCHANGED <<output_path, path_writes, on_disk>>
               /\ trace' = <<>>
               /\ pc' = "returned"
               /\ error' = "none"
    /\ UNCHANGED <<dataset_id, variable, extent, file_format, ORCA,
                   horizontal_resolution, month, longitude, html, threshold, j, i,
                   ds_var, ice_extents, month_dts, exported, frame>>

\* the assertion with the longitude clamped into the extent instead
in_extent_clamped(lon, ext) == TRUE

\* core.py:88, 154: assert self.extent.west <= longitude <= self.extent.east
in_extent(lon, ext) == ext.west <= lon /\ lon <= ext.east

\* the call of plot_transects or plot_ice_extent and its first statement
CallPlot ==
    /\ pc = "idle"
    /\ \E o \in {"plot_transects", "plot_ice_extent"}, a \in CallArgs :
          /\ op' = o
          /\ longitude' = a.longitude
          /\ html' = a.html
          /\ threshold' = IF o = "plot_ice_extent" THEN a.threshold ELSE None
          /\ IF in_extent(a.longitude, extent)
             THEN pc' = "process_datasets" /\ error' = "none"
             ELSE pc' = "failed" /\ error' = "AssertionError"
    /\ trace' = <<>>
    /\ UNCHANGED <<cfg, j, i, ds_var, ice_extents, month_dts, exported,
                   path_writes, on_disk, frame>>

\* core.py:90, 156: __process_datasets
ProcessDatasets ==
    /\ pc = "process_datasets"
    /\ LET r == process_datasets(file_format, on_disk)
       IN  IF r.raised # "none"
           THEN /\ pc' = "failed" /\ error' = r.raised
                /\ UNCHANGED <<trace, j>>
           ELSE /\ pc' = "variable" /\ j' = 0
                /\ trace' = Append(trace, Event("open", -1, -1))
                /\ UNCHANGED error
    /\ UNCHANGED <<cfg, op, longitude, html, threshold, i, ds_var, ice_extents,
                   month_dts, exported, path_writes, on_disk, frame>>

\* the test of core.py:96 replaced by one that always holds
needs_regrid_always(orca) == TRUE

\* core.py:96, 162: if self.ORCA
needs_regrid(orca) == orca

\* the variable is read and regridded, and the lists of plot_ice_extent keep
\* what the variable before left in them
VariableStart_keeps_lists ==
    /\ pc = "variable" /\ j < Len(variable)
    /\ LET name == variable[j + 1].name
           raw == DatasetVariable(ORCA, name)
           r == IF needs_regrid(ORCA) THEN regrid_ORCA(raw, horizontal_resolution)
                ELSE [raised |-> "none", ds_var |-> raw]
           read == Append(trace, Event("read", j, -1))
       IN  /\ trace' = IF needs_regrid(ORCA) THEN Append(read, Event("regrid", j, -1))
                       ELSE read
           /\ IF r.raised # "none"
              THEN /\ pc' = "failed" /\ error' = r.raised
                   /\ UNCHANGED <<ds_var, i>>
              ELSE /\ pc' = "month" /\ i' = 0
                   /\ ds_var' = r.ds_var
                   /\ UNCHANGED error
    /\ UNCHANGED <<cfg, op, longitude, html, threshold, j, exported,
                   path_writes, on_disk, frame, ice_extents, month_dts>>

\* core.py:94-97, 160-166: the variable is read and, on an ORCA grid, handed
\* to the regridder, which may raise; the lists of plot_ice_extent start
\* empty and the month loop starts
VariableStart ==
    /\ pc = "variable" /\ j < Len(variable)
    /\ LET name == variable[j + 1].name
           raw == DatasetVariable(ORCA, name)
           r == IF needs_regrid(ORCA) THEN regrid_ORCA(raw, horizontal_resolution)
                ELSE [raised |-> "none", ds_var |-> raw]
           read == Append(trace, Event("read", j, -1))
       IN  /\ trace' = IF needs_regrid(ORCA) THEN Append(read, Event("regrid", j, -1))
                       ELSE read
           /\ IF r.raised # "none"
              THEN /\ pc' = "failed" /\ error' = r.raised
                   /\ UNCHANGED <<ds_var, i, ice_extents, month_dts>>
              ELSE /\ pc' = "month" /\ i' = 0
                   /\ ds_var' = r.ds_var
                   /\ ice_extents' = <<>> /\ month_dts' = <<>>
                   /\ UNCHANGED error
    /\ UNCHANGED <<cfg, op, longitude, html, threshold, j, exported,
                   path_writes, on_disk, frame>>

\* the loop over the variables is over: the operation returns
VariablesDone ==
    /\ pc = "variable" /\ j >= Len(variable)
    /\ pc' = "returned"
    /\ UNCHANGED <<cfg, op, longitude, html, threshold, j, i, ds_var, ice_extents,
                   month_dts, trace, exported, error, path_writes, on_disk, frame>>

\* __export (core.py:210-225): shown in the browser or saved as a png
export(hvplots, h, m, var_name) ==
    IF h THEN [kind |-> "html", var_name |-> var_name, month |-> m, plot |-> hvplots]
    ELSE [kind |-> "png", var_name |-> var_name, month |-> m, plot |-> hvplots]

\* core.py:100-143: one pass of the month loop of plot_transects, up to the
\* statement that raises if one does
transect_month(dv, entry, m, year, orca, lon, h, jj, ii) ==
    LET dts == create_month_dt(m, year, orca)
        lim == colourmap_limits(dv)
        lon_pos == nearest(dv.longitude, lon)
        lon_slice == [num |-> dv.longitude.num[lon_pos], den |-> dv.longitude.den]
        slice_ds == select(dv, lon_slice, dts.month_dt, dts.next_month_dt, TRUE)
        cm == colourmap_of(entry.colourmap)
        e1 == <<Event("month_dt", jj, ii)>>
        e4 == e1 \o <<Event("limits", jj, ii), Event("nearest", jj, ii),
                      Event("slice", jj, ii)>>
        e5 == Append(e4, Event("colourmap", jj, ii))
    IN  IF dts.raised # "none"
        THEN [raised |-> dts.raised, events |-> <<>>, artifact |-> None]
        ELSE IF slice_ds.raised # "none"
        THEN [raised |-> slice_ds.raised,
              events |-> e1 \o <<Event("limits", jj, ii), Event("nearest", jj, ii)>>,
              artifact |-> None]
        ELSE IF cm.raised # "none"
        THEN [raised |-> cm.raised, events |-> e4, artifact |-> None]
        ELSE [raised |-> "none",
              events |-> e5 \o <<Event("plot", jj, ii), Event("export", jj, ii)>>,
              artifact |-> export([slice |-> slice_ds, cmap |-> cm.cmap,
                                   clim |-> <<lim.min_valid_vals, lim.max_valid_vals>>],
                                  h, m, entry.name)]

\* one pass of the month loop that takes back the artifacts of the variable
\* when it fails
TransectMonth_rollback ==
    /\ op = "plot_transects" /\ pc = "month" /\ i < Len(month)
    /\ LET r == transect_month(ds_var, variable[j + 1], month[i + 1], extent.year,
                               ORCA, longitude, html, j, i)
       IN  /\ trace' = trace \o r.events
           /\ IF r.raised # "none"
              THEN /\ pc' = "failed" /\ error' = r.raised
                   /\ exported' = SubSeq(exported, 1, Len(exported) - i)
                   /\ UNCHANGED i
              ELSE /\ exported' = Append(exported, r.artifact)
                   /\ i' = i + 1
                   /\ UNCHANGED <<pc, error>>
    /\ UNCHANGED <<cfg, op, longitude, html, threshold, j, ds_var, ice_extents,
                   month_dts, path_writes, on_disk, frame>>

TransectMonth ==
    /\ op = "plot_transects" /\ pc = "month" /\ i < Len(month)
    /\ LET r == transect_month(ds_var, variable[j + 1], month[i + 1], extent.year,
                               ORCA, longitude, html, j, i)
       IN  /\ trace' = trace \o r.events
           /\ IF r.raised # "none"
              THEN /\ pc' = "failed" /\ error' = r.raised
                   /\ UNCHANGED <<i, exported>>
              ELSE /\ exported' = Append(exported, r.artifact)
                   /\ i' = i + 1
                   /\ UNCHANGED <<pc, error>>
    /\ UNCHANGED <<cfg, op, longitude, html, threshold, j, ds_var, ice_extents,
                   month_dts, path_writes, on_disk, frame>>

\* the month loop of plot_transects is over: the next variable
TransectMonthsDone ==
    /\ op = "plot_transects" /\ pc = "month" /\ i >= Len(month)
    /\ pc' = "variable" /\ j' = j + 1
    /\ UNCHANGED <<cfg, op, longitude, html, threshold, i, ds_var, ice_extents,
                   month_dts, trace, exported, error, path_writes, on_disk, frame>>

\* core.py:178-193 on a slice: ice[0] needs a time step; where the variable
\* kept its depth axis (of several levels, as DepthAxis is) ice[0][k] is a row
\* of several values and its comparison with the threshold has no truth value
\* (ValueError) at the first pass of the loop
ice_values_extent(slice_ds, thr, lon) ==
    IF Len(slice_ds.values) = 0 THEN [raised |-> "IndexError", extent_km |-> None]
    ELSE IF slice_ds.layout = "depth"
    THEN CASE Len(slice_ds.depth) >= 2 /\ Len(slice_ds.latitude) >= 2 ->
            [raised |-> "ValueError", extent_km |-> None]
    ELSE monthly_extent(slice_ds.values, slice_ds.latitude, thr, lon)

\* core.py:169-193: one pass of the month loop of plot_ice_extent
ice_month(dv, m, year, orca, lon, thr, jj, ii) ==
    LET dts == create_month_dt(m, year, orca)
        lon_pos == nearest(dv.longitude, lon)
        lon_slice == [num |-> dv.longitude.num[lon_pos], den |-> dv.longitude.den]
        slice_ds == select(dv, lon_slice, dts.month_dt, dts.next_month_dt, FALSE)
        x == ice_values_extent(slice_ds, thr, lon)
        e1 == <<Event("month_dt", jj, ii)>>
        e3 == e1 \o <<Event("nearest", jj, ii), Event("slice", jj, ii)>>
    IN  IF dts.raised # "none"
        THEN [raised |-> dts.raised, events |-> <<>>, dated |-> FALSE,
              month_dt |-> None, extent_km |-> None]
        ELSE IF x.raised # "none"
        THEN [raised |-> x.raised, events |-> e3, dated |-> TRUE,
              month_dt |-> dts.month_dt, extent_km |-> None]
        ELSE [raised |-> "none", events |-> Append(e3, Event("extent", jj, ii)),
              dated |-> TRUE, month_dt |-> dts.month_dt, extent_km |-> x.extent_km]

IceMonth ==
    /\ op = "plot_ice_extent" /\ pc = "month" /\ i < Len(month)
    /\ LET r == ice_month(ds_var, month[i + 1], extent.year, ORCA, longitude,
                          threshold, j, i)
       IN  /\ trace' = trace \o r.events
           /\ month_dts' = IF r.dated THEN Append(month_dts, r.month_dt)
                           ELSE month_dts
           /\ IF r.raised # "none"
              THEN /\ pc' = "failed" /\ error' = r.raised
                   /\ UNCHANGED <<i, ice_extents>>
              ELSE /\ ice_extents' = Append(ice_extents, r.extent_km)
                   /\ i' = i + 1
                   /\ UNCHANGED <<pc, error>>
    /\ UNCHANGED <<cfg, op, longitude, html, threshold, j, ds_var, exported,
                   path_writes, on_disk, frame>>

\* core.py:194-207: the month loop of plot_ice_extent is over: the series is
\* plotted and exported, then the next variable
IceMonthsDone ==
    /\ op = "plot_ice_extent" /\ pc = "month" /\ i >= Len(month)
    /\ exported' = Append(exported,
                          export([index |-> month_dts, extent |-> ice_extents],
                                 html, "Annual", variable[j + 1].name))
    /\ trace' = trace \o <<Event("plot", j, -1), Event("export", j, -1)>>
    /\ pc' = "variable" /\ j' = j + 1
    /\ UNCHANGED <<cfg, op, longitude, html, threshold, i, ds_var, ice_extents,
                   month_dts, error, path_writes, on_disk, frame>>

\* the operation is over, by return or by exception: the entry is idle again
Return ==
    /\ pc \in {"returned", "failed"}
    /\ op' = "none" /\ pc' = "idle" /\ longitude' = None /\ html' = FALSE
    /\ threshold' = None /\ j' = 0 /\ i' = 0 /\ ds_var' = None
    /\ ice_extents' = <<>> /\ month_dts' = <<>>
    /\ trace' = <<>> /\ exported' = <<>> /\ error' = "none"
    /\ UNCHANGED <<cfg, path_writes, on_disk, frame>>

Next ==
    \/ GetData
    \/ CallPlot
    \/ ProcessDatasets
    \/ VariableStart
    \/ VariablesDone
    \/ TransectMonth
    \/ TransectMonthsDone
    \/ IceMonth
    \/ IceMonthsDone
    \/ Return

Spec == Init /\ [][Next]_vars

(*CLAIMS*)
-----------------------------------------------------------------------------
(* Properties of the ice-extent loop, checked under SpecIce *)

IceDone == frame.fn = "ice_extent" /\ frame.pc = "done"
IceRunning == frame.fn = "ice_extent" /\ frame.pc \in {"loop", "done"}

\* the pairs (p, p+1) of a transect of n points whose lower point p is above
\* the threshold (1-based)
CountedPairs(c, thr) ==
    {p \in 1..(Len(c) - 1) : c[p] # NaN /\ c[p] > thr}

RECURSIVE SumOfPairs(_, _)
SumOfPairs(P, lat) ==
    IF P = {} THEN 0
    ELSE LET p == CHOOSE q \in P : TRUE
         IN  MetresPerArcMinute * Abs(lat[p + 1] - lat[p]) + SumOfPairs(P \ {p}, lat)

\* C2: the monthly extent is the sum, over exactly the indices below the last
\* one whose concentration is strictly above the threshold, of the distance
\* from that latitude to the next; the last point's concentration never
\* changes it; [0.0, 0.2, 0.01, 0.3] at threshold 0.05 gives the one segment
\* from index 1 to index 2.
C2_ExtentIsSumOfLowerIndexPairs ==
    IceDone =>
        LET c == frame.ice[1]
            n == Len(c)
        IN  /\ frame.extent_km = SumOfPairs(CountedPairs(c, frame.threshold), frame.lat)
            /\ n >= 1 =>
                 \A v \in ConcValues :
                    monthly_extent(<<[c EXCEPT ![n] = v]>>, frame.lat,
                                   frame.threshold, frame.longitude).extent_km
                      = frame.extent_km
            /\ (c = <<0, 20, 1, 30>> /\ frame.threshold = 5) =>
                 frame.extent_km = MetresPerArcMinute * Abs(frame.lat[3] - frame.lat[2])

C2_Witness ==
    /\ IceDone
    /\ frame.ice[1] = <<0, 20, 1, 30>> /\ frame.threshold = 5
    /\ frame.lat = <<Deg(70), Deg(70) + 30, Deg(71), Deg(71) + 30>>
    /\ frame.extent_km = 30 * MetresPerArcMinute

EvenlySpaced(lat) ==
    \A p \in 1..(Len(lat) - 2) : lat[p + 1] - lat[p] = lat[p + 2] - lat[p + 1]

\* C3: the extent is non-negative at every step of its accumulation, it is 0
\* when no point exceeds the threshold, and along an evenly spaced latitude
\* axis it does not decrease when a point that is not above the threshold is
\* given a concentration above it.
C3_ExtentNonNegativeZeroMonotone ==
    /\ IceRunning => frame.extent_km >= 0
    /\ IceDone =>
         LET c == frame.ice[1]
         IN  /\ (\A p \in 1..Len(c) : ~Gt(c[p], frame.threshold)) => frame.extent_km = 0
             /\ EvenlySpaced(frame.lat) =>
                  \A p \in 1..Len(c), v \in ConcValues :
                     (~Gt(c[p], frame.threshold) /\ Gt(v, frame.threshold)) =>
                        monthly_extent(<<[c EXCEPT ![p] = v]>>, frame.lat,
                                       frame.threshold, frame.longitude).extent_km
                          >= frame.extent_km

\* a descending, evenly spaced transect with ice at one point and a point that
\* adds a segment once it is raised above the threshold
C3_Witness ==
    /\ IceDone
    /\ frame.lat = <<Deg(80), Deg(80) - 30, Deg(80) - 60>>
    /\ frame.ice[1] = <<20, 1, NaN>>
    /\ frame.threshold = 5
    /\ frame.extent_km = 30 * MetresPerArcMinute
    /\ monthly_extent(<<<<20, 30, NaN>>>>, frame.lat, 5, frame.longitude).extent_km
         = 60 * MetresPerArcMinute

-----------------------------------------------------------------------------
(* Properties of __create_month_dt, checked under SpecMonth *)

MonthReturned == frame.fn = "create_month_dt" /\ frame.pc = "return"
MonthRaised == frame.fn = "create_month_dt" /\ frame.pc = "raise"

\* the number of each of the twelve month names, written out
NumberOfMonth ==
    [m \in {CapitalNames[n] : n \in 1..12} |->
        CASE m = "January" -> 1 [] m = "February" -> 2 [] m = "March" -> 3
          [] m = "April" -> 4 [] m = "May" -> 5 [] m = "June" -> 6
          [] m = "July" -> 7 [] m = "August" -> 8 [] m = "September" -> 9
          [] m = "October" -> 10 [] m = "November" -> 11 [] m = "December" -> 12]

\* C4: for each of the twelve month names and every year, start is day 1,
\* 00:00 of that month and year, end is day 1, 00:00 of the following month
\* (January of year + 1 after December), end is later than start, and both are
\* in the 360-day calendar when ORCA is true and Gregorian otherwise, with the
\* same year, month and day numerals.
C4_MonthBounds ==
    (frame.fn = "create_month_dt" /\ frame.pc # "call"
        /\ frame.month \in DOMAIN NumberOfMonth) =>
        LET n == NumberOfMonth[frame.month]
            y == extent.year
            cal == IF ORCA THEN "360_day" ELSE "gregorian"
            start == frame.result.month_dt
            end == frame.result.next_month_dt
        IN  /\ frame.pc = "return"
            /\ start = [calendar |-> cal, year |-> y, month |-> n, day |-> 1,
                        hour |-> 0, minute |-> 0]
            /\ end = [calendar |-> cal,
                      year |-> IF n = 12 THEN y + 1 ELSE y,
                      month |-> IF n = 12 THEN 1 ELSE n + 1,
                      day |-> 1, hour |-> 0, minute |-> 0]
            /\ Instant(end) > Instant(start)

\* December in the 360-day calendar: the end is January of the next year
C4_Witness ==
    /\ MonthReturned
    /\ frame.month = "December" /\ ORCA
    /\ frame.result.month_dt.calendar = "360_day"
    /\ frame.result.next_month_dt.year = extent.year + 1
    /\ frame.result.next_month_dt.month = 1

-----------------------------------------------------------------------------
(* Properties of __regrid_ORCA, checked under SpecRegrid *)

RegridHasTarget == frame.fn = "regrid_ORCA" /\ frame.pc \in {"target", "regridded", "return"}

\* n is the floor of (hi - lo)/r
IsFloorOfQuotient(n, lo, hi, r) == n >= 0 /\ n * r <= hi - lo /\ hi - lo < (n + 1) * r

StrictlyMonotonic(axis) ==
    \/ \A p \in 1..(Len(axis.num) - 1) : axis.num[p] < axis.num[p + 1]
    \/ \A p \in 1..(Len(axis.num) - 1) : axis.num[p] > axis.num[p + 1]
EvenSteps(axis) ==
    \A p \in 1..(Len(axis.num) - 2) :
       axis.num[p + 1] - axis.num[p] = axis.num[p + 2] - axis.num[p + 1]
StartsAt(axis, lo) == Len(axis.num) >= 1 => axis.num[1] = lo * axis.den
\* the last point of an axis of at least least points is hi
EndsAt(axis, hi, least) ==
    Len(axis.num) >= least => axis.num[Len(axis.num)] = hi * axis.den

\* C9: each target axis has exactly floor((max - min)/r) points, is strictly
\* monotonic and evenly spaced, and starts at the minimum of the source range;
\* an axis of two or more points ends at the maximum, while an axis of one
\* point is the minimum alone and does not reach the maximum.
C9_TargetAxes ==
    RegridHasTarget =>
        LET g == frame.target_grid
            d == frame.source
            r == horizontal_resolution
        IN  /\ Len(g.target_lat.num) = g.lat_number
            /\ Len(g.target_lon.num) = g.lon_number
            /\ IsFloorOfQuotient(g.lat_number, d.lat_min, d.lat_max, r)
            /\ IsFloorOfQuotient(g.lon_number, d.lon_min, d.lon_max, r)
            /\ StrictlyMonotonic(g.target_lat) /\ StrictlyMonotonic(g.target_lon)
            /\ EvenSteps(g.target_lat) /\ EvenSteps(g.target_lon)
            /\ StartsAt(g.target_lat, d.lat_min) /\ StartsAt(g.target_lon, d.lon_min)
            /\ EndsAt(g.target_lat, d.lat_max, 2) /\ EndsAt(g.target_lon, d.lon_max, 2)
            /\ (g.lat_number = 1 /\ d.lat_max > d.lat_min) =>
                  g.target_lat.num[1] # d.lat_max * g.target_lat.den

\* C9 as stated: every axis that has a point runs from the minimum to the
\* maximum of the source range.
C9_AxesSpanTheRange ==
    RegridHasTarget =>
        LET g == frame.target_grid
            d == frame.source
            r == horizontal_resolution
        IN  /\ IsFloorOfQuotient(g.lat_number, d.lat_min, d.lat_max, r)
            /\ IsFloorOfQuotient(g.lon_number, d.lon_min, d.lon_max, r)
            /\ StrictlyMonotonic(g.target_lat) /\ StrictlyMonotonic(g.target_lon)
            /\ EvenSteps(g.target_lat) /\ EvenSteps(g.target_lon)
            /\ StartsAt(g.target_lat, d.lat_min) /\ StartsAt(g.target_lon, d.lon_min)
            /\ EndsAt(g.target_lat, d.lat_max, 1) /\ EndsAt(g.target_lon, d.lon_max, 1)

\* a range of 6 minutes at a resolution of 2: three points, 70d00', 70d03', 70d06'
C9_Witness ==
    /\ RegridHasTarget
    /\ frame.source.lat_max - frame.source.lat_min = 6
    /\ horizontal_resolution = 2
    /\ frame.target_grid.lat_number = 3
    /\ AxisValues(frame.target_grid.target_lat) = <<Deg(70), Deg(70) + 3, Deg(70) + 6>>

NoZeroCell(cells) == \A t \in DOMAIN cells : \A p \in DOMAIN cells[t] : cells[t][p] # 0
NoZeroCellRegular(cells) ==
    \A t \in DOMAIN cells : \A p \in DOMAIN cells[t] : \A c \in DOMAIN cells[t][p] :
       cells[t][p][c] # 0

-----------------------------------------------------------------------------
(* Properties of the operations of a ModelEntry, checked under Spec *)

Reporting == op \in {"plot_transects", "plot_ice_extent"}

\* the steps of the running operation that belong to a month of a variable
EventsOf(kinds) == {k \in 1..Len(trace) : trace[k].e \in kinds}

\* C1: a longitude strictly west of extent.west or strictly east of
\* extent.east makes plot_transects and plot_ice_extent fail before the dataset
\* is opened and before anything is regridded, sliced or exported; the
\* longitude is not clamped, and one equal to west or to east is accepted.
C1_LongitudeOutsideExtentFailsFirst ==
    Reporting =>
        /\ (longitude < extent.west \/ longitude > extent.east) =>
              /\ pc = "failed" /\ error = "AssertionError"
              /\ trace = <<>> /\ exported = <<>> /\ ds_var = None
              /\ ice_extents = <<>> /\ month_dts = <<>>
        /\ (longitude >= extent.west /\ longitude <= extent.east) =>
              error # "AssertionError"
        /\ \A k \in 1..Len(exported) :
              extent.west <= longitude /\ longitude <= extent.east

C1_Witness ==
    /\ op = "plot_ice_extent" /\ longitude > extent.east
    /\ pc = "failed" /\ error = "AssertionError" /\ trace = <<>>
    /\ on_disk /\ file_format = "zarr"

\* the month strings strptime's %B recognizes: the twelve English names, in
\* whatever letter case (the two cases that occur are written out)
RecognizedMonths ==
    {"January", "February", "March", "April", "May", "June", "July", "August",
     "September", "October", "November", "December",
     "january", "february", "march", "april", "may", "june", "july", "august",
     "september", "october", "november", "december"}

\* C5: a configured month string that is not a recognized month name makes the
\* month-bounds computation fail with an error (ValueError) instead of
\* returning bounds, and nothing is sliced, computed or exported for that
\* (variable, month): the step that reaches it fails the operation and leaves
\* the exported artifacts and the accumulated extents as they were.
C5_UnknownMonthFails ==
    /\ [](Reporting =>
            /\ \A k \in 1..Len(trace) :
                  trace[k].i >= 0 => month[trace[k].i + 1] \in RecognizedMonths
            /\ (pc = "month" /\ i <= Len(month)) =>
                  \A ii \in 1..i : month[ii] \in RecognizedMonths
            /\ Len(ice_extents) <= i /\ Len(month_dts) <= i + 1
            /\ \A ii \in 1..Len(month_dts) : month[ii] \in RecognizedMonths)
    /\ [][(Reporting /\ pc = "month" /\ i < Len(month)
             /\ month[i + 1] \notin RecognizedMonths) =>
            /\ pc' = "failed" /\ error' = "ValueError"
            /\ trace' = trace /\ exported' = exported
            /\ ice_extents' = ice_extents /\ month_dts' = month_dts]_vars

\* plot_transects fails at its second month, "Smarch", after the export of the first
C5_Witness ==
    /\ op = "plot_transects" /\ pc = "failed" /\ error = "ValueError"
    /\ month = <<"January", "Smarch">> /\ i = 1
    /\ Len(exported) = 1 /\ exported[1].month = "January"

KnownColourmaps == {None, "thermal", "haline", "algae"}

\* C6 for plot_transects alone: a variable whose colourmap is neither absent
\* nor "thermal", "haline" or "algae" is never plotted or exported by
\* plot_transects, and once a month of it has been sliced the operation has
\* failed with the unknown-colourmap error; plot_ice_extent never raises that
\* error.
C6_UnknownColourmapFailsTransects ==
    /\ op = "plot_transects" =>
          /\ \A k \in EventsOf({"colourmap", "plot", "export"}) :
                variable[trace[k].j + 1].colourmap \in KnownColourmaps
          /\ \A k \in EventsOf({"slice"}) :
                variable[trace[k].j + 1].colourmap \notin KnownColourmaps =>
                   /\ k = Len(trace)
                   /\ pc = "failed" /\ error = "Unknown colourmap"
          /\ error = "Unknown colourmap" =>
                /\ pc = "failed"
                /\ variable[j + 1].colourmap \notin KnownColourmaps
    /\ op # "plot_transects" => error # "Unknown colourmap"

\* the second variable has an unknown colourmap; the first one's month is exported
C6_Witness ==
    /\ op = "plot_transects" /\ pc = "failed" /\ error = "Unknown colourmap"
    /\ j = 1 /\ variable[2].colourmap = "viridis"
    /\ Len(exported) = 1 /\ exported[1].var_name = "thetao"

\* C6 as stated, for entries with at least one month: in both operations
\* nothing is exported for a variable with an unknown colourmap, and an
\* operation that met one does not return normally.
C6_UnknownColourmapFailsEveryOperation ==
    (Reporting /\ month # <<>>) =>
        /\ \A k \in EventsOf({"export"}) :
              variable[trace[k].j + 1].colourmap \in KnownColourmaps
        /\ pc = "returned" =>
              \A jj \in 1..Len(variable) : variable[jj].colourmap \in KnownColourmaps

\* C7: with a file_format other than "netcdf" or "zarr" the reporting
\* operations fail with the unsupported-file-format error before any variable
\* is read, regridded, sliced or exported, and for a longitude inside the
\* extent that is the first failure.
C7_UnsupportedFormatFailsFirst ==
    (Reporting /\ file_format \notin {"netcdf", "zarr"}) =>
        /\ pc \in {"process_datasets", "failed"}
        /\ trace = <<>> /\ exported = <<>> /\ ds_var = None
        /\ ice_extents = <<>> /\ month_dts = <<>>
        /\ pc = "failed" =>
              error = IF longitude >= extent.west /\ longitude <= extent.east
                      THEN "unsupported file format" ELSE "AssertionError"

\* the file is missing as well, and the format is what is reported
C7_Witness ==
    /\ op = "plot_transects" /\ file_format = "csv" /\ ~on_disk
    /\ pc = "failed" /\ error = "unsupported file format"

\* C8: output_path is assigned at most once, by get_data and only when it was
\* None; a path given by the caller is never changed; no operation changes
\* dataset_id, variable, extent, file_format, ORCA, horizontal_resolution or
\* month.
C8_OutputPathAssignedOnce ==
    /\ [](path_writes <= 1)
    /\ [][/\ output_path' # output_path =>
                /\ output_path = None /\ op' = "get_data" /\ pc = "idle"
                /\ path_writes = 0 /\ path_writes' = 1
          /\ output_path' = output_path => path_writes' = path_writes
          /\ UNCHANGED <<dataset_id, variable, extent, file_format, ORCA,
                         horizontal_resolution, month>>]_vars

\* get_data has assigned the path, and a later plot_transects has run with it
C8_Witness ==
    /\ path_writes = 1 /\ output_path = DerivedPath
    /\ op = "plot_transects" /\ pc = "returned" /\ exported # <<>>

-----------------------------------------------------------------------------
(* Properties of the selection steps, checked under SpecSelect *)

\* the nearest longitude has been taken
SelectChosen == frame.fn = "select" /\ frame.pc \in {"nearest", "return", "raise"}
SelectReturned == frame.fn = "select" /\ frame.pc = "return"
\* the distance of coordinate q of the longitude axis to the longitude asked
\* for, in units of 1/den
LonDistance(q) ==
    Abs(frame.ds_var.longitude.num[q] - frame.longitude * frame.ds_var.longitude.den)
\* the positions of the longitude axis that are as close as any to the request
Closest ==
    {q \in 1..AxisLen(frame.ds_var.longitude) :
        \A r \in 1..AxisLen(frame.ds_var.longitude) : LonDistance(q) <= LonDistance(r)}
\* the position of the longitude axis whose coordinate is the one sliced at
SlicedAt ==
    {c \in 1..AxisLen(frame.ds_var.longitude) :
        frame.lon_slice = [num |-> frame.ds_var.longitude.num[c],
                           den |-> frame.ds_var.longitude.den]}

\* C11: the longitude sliced at is a coordinate of the grid and none is
\* strictly closer to the request; a request equal to a coordinate gets that
\* coordinate; 30.0 against 29.8, 30.1, 30.4 gets 30.1; and every value of the
\* slice is the cell of the grid at that coordinate's column, at the time
\* steps and latitudes selected.
C11_NearestLongitudeColumn ==
    /\ SelectChosen =>
          /\ SlicedAt # {}
          /\ SlicedAt \subseteq Closest
          /\ \A q \in 1..AxisLen(frame.ds_var.longitude) :
                LonDistance(q) = 0 => q \in SlicedAt
          /\ (frame.ds_var.longitude.num = <<Deg(29) + 48, Deg(30) + 6, Deg(30) + 24>>
                /\ frame.longitude = Deg(30)) => SlicedAt = {2}
    /\ SelectReturned =>
          /\ frame.slice_ds.longitude = frame.lon_slice
          /\ \E c \in SlicedAt :
                \A t \in DOMAIN frame.slice_ds.values :
                   \A p \in DOMAIN frame.slice_ds.values[t] :
                      \E tt \in DOMAIN frame.ds_var.time :
                         \E pp \in 1..AxisLen(frame.ds_var.latitude) :
                            /\ frame.ds_var.time[tt] = frame.slice_ds.time[t]
                            /\ frame.ds_var.latitude.num[pp] = frame.slice_ds.latitude[p]
                            /\ frame.slice_ds.values[t][p] = frame.ds_var.cells[tt][pp][c]

\* 30.0 asked of the axis 29.8, 30.1, 30.4: the slice is the second column
C11_Witness ==
    /\ SelectReturned
    /\ frame.ds_var.longitude.num = <<Deg(29) + 48, Deg(30) + 6, Deg(30) + 24>>
    /\ frame.longitude = Deg(30)
    /\ frame.lon_slice.num = Deg(30) + 6
    /\ Len(frame.slice_ds.values) >= 1
    /\ frame.slice_ds.values[1][1] % 10 = 2

\* two coordinates are equally close to the request and none is closer
Tied == SelectChosen /\ Cardinality(Closest) >= 2

\* C12 (as amended): of two equally close coordinates the larger one is
\* taken, wherever it stands on the axis.
C12_TieResolvesToLarger ==
    Tied => \A c \in SlicedAt : \A q \in Closest :
               frame.ds_var.longitude.num[c] >= frame.ds_var.longitude.num[q]

\* C12 (as stated): of two equally close coordinates the one that comes first
\* in coordinate order is taken.
C12_TieResolvesToFirst ==
    Tied => \A c \in SlicedAt : \A q \in Closest : c <= q

\* 30.0 asked of the ascending axis 29.9, 30.1: 30.1 is taken
C12_Witness ==
    /\ Tied
    /\ frame.ds_var.longitude.num = <<Deg(29) + 54, Deg(30) + 6>>
    /\ frame.longitude = Deg(30)
    /\ frame.lon_slice.num = Deg(30) + 6

\* the time steps of an axis inside the half-open window of a month
HalfOpen(times, start, end) ==
    SelectSeq(times, LAMBDA t : Instant(start) <= Instant(t) /\ Instant(t) < Instant(end))

\* C14: the slice of a month holds exactly the time steps t of the grid with
\* start <= t < end, and none of them is in the slice of another month.
C14_TimeWindowHalfOpen ==
    SelectReturned =>
       /\ frame.slice_ds.time =
             HalfOpen(frame.ds_var.time, frame.month_dt, frame.next_month_dt)
       /\ \A m \in {CapitalNames[n] : n \in 1..12} \ {frame.month} :
             LET dts == create_month_dt(m, extent.year, ORCA)
                 other == select(frame.ds_var, frame.lon_slice, dts.month_dt,
                                 dts.next_month_dt, frame.with_depth)
             IN  \A t \in DOMAIN frame.slice_ds.time : \A u \in DOMAIN other.time :
                    frame.slice_ds.time[t] # other.time[u]

\* C15 (as amended): the slice of plot_transects is the result of four
\* selections (the nearest longitude, the depth levels of [0, max_valid_depth],
\* the latitude range, the time range) and needs a depth axis: without one
\* the selection raises and there is no slice.  The slice of plot_ice_extent
\* is the result of three (longitude, latitude range, time range): it succeeds
\* without a depth axis and keeps every level of a depth axis that is there.
C15_AxisSelections ==
    /\ (frame.fn = "select" /\ frame.pc = "raise") =>
          (frame.with_depth /\ frame.ds_var.layout # "depth")
    /\ SelectReturned =>
          /\ ~(frame.with_depth /\ frame.ds_var.layout # "depth")
          /\ frame.with_depth =>
                frame.slice_ds.depth =
                   SelectSeq(DepthAxis, LAMBDA d : 0 <= d /\ d <= max_valid_depth)
          /\ ~frame.with_depth =>
                frame.slice_ds.depth =
                   IF frame.ds_var.layout = "depth" THEN DepthAxis ELSE <<>>
          /\ frame.slice_ds.longitude = frame.lon_slice
          /\ frame.slice_ds.latitude =
                SelectSeq(frame.ds_var.latitude.num,
                          LAMBDA l : latitude_start_slice <= l /\ l <= latitude_end_slice)
          /\ frame.slice_ds.time =
                SelectSeq(frame.ds_var.time,
                          LAMBDA t : /\ Instant(frame.month_dt) <= Instant(t)
                                     /\ Instant(t) <= Instant(frame.next_month_dt))

\* C15 (as stated): every extraction succeeds, also without a depth axis, and
\* every slice has had its depth levels selected within [0, max_valid_depth].
C15_FourSelectionsDepthNoOp ==
    (frame.fn = "select" /\ frame.pc \in {"return", "raise"}) =>
       /\ frame.pc = "return"
       /\ \A d \in DOMAIN frame.slice_ds.depth :
             0 <= frame.slice_ds.depth[d] /\ frame.slice_ds.depth[d] <= max_valid_depth

\* a transect slice of a variable with a depth axis: the level at 500 m is out
C15_Witness ==
    /\ SelectReturned
    /\ frame.with_depth
    /\ frame.slice_ds.depth = <<0, 100>>
    /\ Len(frame.slice_ds.time) >= 1

-----------------------------------------------------------------------------
(* Properties of the month loops of a ModelEntry, checked under Spec *)

\* the operation has failed right after the slice of month i of variable j
FailedAfterSlice ==
    /\ Reporting /\ pc = "failed" /\ i < Len(month)
    /\ trace # <<>> /\ trace[Len(trace)] = Event("slice", j, i)
\* the window of month i selects no time step of the variable
WindowIsEmpty ==
    LET dts == create_month_dt(month[i + 1], extent.year, ORCA)
    IN  time_positions(ds_var.time, dts.month_dt, dts.next_month_dt) = <<>>

\* C13: a month whose window selects no time step does not make the operation
\* raise: plot_ice_extent goes on to the next month with a value for this one
\* and plot_transects exports the empty slice.
C13_EmptyWindowDoesNotRaise ==
    (FailedAfterSlice /\ variable[j + 1].name \in SurfaceNames /\ WindowIsEmpty) =>
       error # "IndexError"

IceOp == op = "plot_ice_extent"
\* the start instant of configured month ii (counted from 1)
StartOf(ii) == create_month_dt(month[ii], extent.year, ORCA).month_dt
\* variable k (counted from 1) as the month loop sees it
VariableOf(k) ==
    IF ORCA
    THEN regrid_ORCA(DatasetVariable(ORCA, variable[k].name), horizontal_resolution).ds_var
    ELSE DatasetVariable(ORCA, variable[k].name)
\* the positions of the trace that hold an event of kind e of variable jj
PositionsOf(e, jj) == {n \in 1..Len(trace) : trace[n].e = e /\ trace[n].j = jj}

\* C16: plot_ice_extent exports one artifact for each variable whose month loop
\* is over and none before that; the artifact of variable k holds one scalar
\* for each configured month, in configured order, scalar ii being the extent
\* of variable k in month ii and indexed by the start instant of month ii; the
\* lists the scalars are gathered in hold the months of the current variable
\* only.
C16_OneSeriesPerVariable ==
    IceOp =>
       /\ pc \in {"variable", "month", "failed"} => Len(exported) = j
       /\ pc = "returned" => Len(exported) = Len(variable)
       /\ pc = "month" => Len(ice_extents) = i /\ Len(month_dts) = i
       /\ \A k \in 1..Len(exported) :
             /\ exported[k].var_name = variable[k].name
             /\ exported[k].month = "Annual"
             /\ Len(exported[k].plot.extent) = Len(month)
             /\ Len(exported[k].plot.index) = Len(month)
             /\ \A ii \in 1..Len(month) :
                   /\ exported[k].plot.index[ii] = StartOf(ii)
                   /\ exported[k].plot.extent[ii] =
                         ice_month(VariableOf(k), month[ii], extent.year, ORCA,
                                   longitude, threshold, k - 1, ii - 1).extent_km
       /\ \A jj \in 0..(Len(variable) - 1) : \A n \in PositionsOf("export", jj) :
             /\ {trace[q].i : q \in {q \in PositionsOf("extent", jj) : q < n}}
                   = 0..(Len(month) - 1)
             /\ \A q \in PositionsOf("extent", jj) : q < n
             /\ Cardinality(PositionsOf("export", jj)) = 1

\* two variables, two months of different extent: two series of two scalars
C16_Witness ==
    /\ IceOp /\ pc = "returned"
    /\ Len(variable) = 2 /\ Len(month) = 2
    /\ Len(exported) = 2
    /\ Len(exported[2].plot.extent) = 2
    /\ exported[2].plot.extent[1] # exported[2].plot.extent[2]
    /\ exported[2].plot.index = <<StartOf(1), StartOf(2)>>

TransectOp == op = "plot_transects"
\* the artifacts of the current variable that are exported so far
ArtifactsOfVariable == SubSeq(exported, Len(exported) - i + 1, Len(exported))

\* C17 (as amended): plot_transects computes the colour limits in every pass
\* of the month loop, right after the month bounds, from the whole variable
\* (regridded on an ORCA grid) and not from the month's slice; the variable
\* being the same in every pass, every month of a variable is exported with
\* the same (low, high) pair, the 5th and 95th percentile of its values.
C17_LimitsEveryMonthSameValue ==
    TransectOp =>
       /\ \A n \in 1..Len(trace) :
             /\ trace[n].e = "month_dt" =>
                   /\ n < Len(trace)
                   /\ trace[n + 1] = Event("limits", trace[n].j, trace[n].i)
             /\ trace[n].e = "limits" =>
                   /\ n > 1
                   /\ trace[n - 1] = Event("month_dt", trace[n].j, trace[n].i)
       /\ pc = "month" =>
             \A n \in 1..Len(ArtifactsOfVariable) :
                ArtifactsOfVariable[n].plot.clim =
                   <<nanpercentile(Flatten(Flatten(ds_var.cells)), 5),
                     nanpercentile(Flatten(Flatten(ds_var.cells)), 95)>>

\* C17 (as stated): the limits are computed once for a variable, whatever the
\* number of months.
C17_LimitsOncePerVariable ==
    TransectOp =>
       \A jj \in 0..(Len(variable) - 1) : Cardinality(PositionsOf("limits", jj)) <= 1

\* two months of one variable exported: the limits were computed twice and the
\* two artifacts carry the same pair
C17_Witness ==
    /\ TransectOp /\ pc = "month" /\ i = 2
    /\ Cardinality(PositionsOf("limits", j)) = 2
    /\ Len(exported) >= 2
    /\ ArtifactsOfVariable[1].plot.clim = ArtifactsOfVariable[2].plot.clim
    /\ ArtifactsOfVariable[1].plot.clim[1] # NaN
    /\ ArtifactsOfVariable[1].plot.slice.values # ArtifactsOfVariable[2].plot.slice.values

\* the events of the month loop of a variable
MonthLoopEvents ==
    {"month_dt", "limits", "nearest", "slice", "colourmap", "extent", "plot", "export"}

\* C18: in an invocation of a reporting operation the regridder is called once
\* for every variable the loop reaches when ORCA is true, so once for each
\* configured variable when the operation returns, and never when ORCA is
\* false; the call comes before every month-bounds computation, slice and
\* export of that variable.
C18_RegridOncePerVariableFirst ==
    Reporting =>
       /\ ~ORCA => \A n \in 1..Len(trace) : trace[n].e # "regrid"
       /\ ORCA =>
             /\ \A jj \in 0..(Len(variable) - 1) :
                   /\ Cardinality(PositionsOf("regrid", jj))
                         = Cardinality(PositionsOf("read", jj))
                   /\ Cardinality(PositionsOf("regrid", jj)) <= 1
                   /\ (jj < j \/ pc = "returned" \/ (jj = j /\ pc = "month")) =>
                         Cardinality(PositionsOf("regrid", jj)) = 1
             /\ \A n \in 1..Len(trace) :
                   trace[n].e \in MonthLoopEvents =>
                      \E q \in PositionsOf("regrid", trace[n].j) : q < n

\* an ORCA entry of two variables and two months has returned: two calls of
\* the regridder, each before the events of its variable
C18_Witness ==
    /\ Reporting /\ ORCA /\ pc = "returned"
    /\ Len(variable) = 2 /\ Len(month) = 2
    /\ Cardinality(PositionsOf("regrid", 0)) = 1
    /\ Cardinality(PositionsOf("regrid", 1)) = 1
    /\ PositionsOf("export", 1) # {}

\* C19: plot_transects exports one artifact for each (variable, month) pair it
\* has gone through, variables in configured order and within a variable the
\* months in configured order: all pairs when it returns, the pairs before
\* (j, i) when it fails at (j, i); what is exported stays exported.
C19_ExportedPairsState ==
    TransectOp =>
       /\ pc \in {"month", "failed"} => Len(exported) = j * Len(month) + i
       /\ pc = "variable" => Len(exported) = j * Len(month)
       /\ pc = "returned" => Len(exported) = Len(variable) * Len(month)
       /\ \A n \in 1..Len(exported) :
             /\ exported[n].var_name = variable[((n - 1) \div Len(month)) + 1].name
             /\ exported[n].month = month[((n - 1) % Len(month)) + 1]
C19_ExportedPairsStep ==
    (TransectOp /\ op' = op /\ pc # "idle") =>
       /\ Len(exported') >= Len(exported)
       /\ SubSeq(exported', 1, Len(exported)) = exported
       /\ Len(exported') <= Len(exported) + 1
       /\ pc' = "failed" => exported' = exported
C19_ExportedPairsInOrder == []C19_ExportedPairsState /\ [][C19_ExportedPairsStep]_vars

\* the first variable exported for both months, the second one failed at its
\* first month: the two artifacts are there
C19_Witness ==
    /\ TransectOp /\ pc = "failed" /\ j = 1 /\ i = 0
    /\ Len(month) = 2 /\ Len(exported) = 2
    /\ exported[1].month = month[1] /\ exported[2].month = month[2]

-----------------------------------------------------------------------------
(* The time steps of a month in the ice-extent loop, checked under SpecIce *)

\* C20: with two time steps in the month's window the extent is the one the
\* first step alone gives, whatever the concentrations of the second step are.
C20_FirstTimeStepOnly ==
    (IceDone /\ Len(frame.ice) >= 2) =>
       /\ frame.extent_km =
             monthly_extent(<<frame.ice[1]>>, frame.lat, frame.threshold,
                            frame.longitude).extent_km
       /\ \A v \in ConcValues :
             monthly_extent(<<frame.ice[1], [p \in DOMAIN frame.ice[2] |-> v]>>,
                            frame.lat, frame.threshold, frame.longitude).extent_km
                = frame.extent_km

\* the first step has one point above the threshold before the last, the
\* second step is ice all along: the extent is the one segment of the first
C20_Witness ==
    /\ IceDone
    /\ frame.ice = <<<<0, 20, 1, 30>>, <<30, 30, 30, 30>>>>
    /\ frame.threshold = 5
    /\ frame.lat = <<Deg(70), Deg(70) + 30, Deg(71), Deg(71) + 30>>
    /\ frame.extent_km = 30 * MetresPerArcMinute

====
